---- MODULE Spec2Model ----
(***************************************************************************)
(* A model of src/src/server.ts: the Signer (createSignature), the signed  *)
(* outbound call (makeAuthenticatedRequest) and the three Gateway handlers *)
(* (/api/access-token, /api/refresh-token, /api/applicant/:applicantId).   *)
(*                                                                         *)
(* A string is a sequence of pieces of text; the concatenation of the      *)
(* source (+ and template literals) is \o.  Method names, digits and the   *)
(* random draw are spelt character by character; the literal pieces of     *)
(* text of the source are one piece each.                                  *)
(*                                                                         *)
(* A handler runs without interruption between two awaits, so an action is *)
(* the code a handler runs from one await of an outbound call to the next. *)
(***************************************************************************)
EXTENDS Naturals, Sequences, FiniteSets

VARIABLES
  APP_TOKEN,   \* process.env.SUMSUB_APP_TOKEN, <<>> when not configured
  SECRET_KEY,  \* process.env.SUMSUB_SECRET_KEY, <<>> when not configured
  now,         \* Date.now(), in milliseconds
  pc,          \* pc[r]: where the handler of request r stands
  req,         \* req[r]: the route and the input of request r
  loc,         \* loc[r]: the handler's local constants
  calls,       \* calls[r]: the outbound calls request r has issued, in order
  replies,     \* replies[r]: what the remote API answered to them, in order
  hung,        \* hung[r]: the call in flight will never return
  res,         \* res[r]: the responses sent to the caller of r
  signer       \* two applications of the Signer to drawn inputs

vars == <<APP_TOKEN, SECRET_KEY, now, pc, req, loc, calls, replies, hung, res, signer>>

config == <<APP_TOKEN, SECRET_KEY>>

\* ---------------------------------------------------------------- bounds

\* The instant the model starts at, in milliseconds.
StartNow == 1999

\* How many milliseconds the clock may advance.
MaxTicks == 1

\* The requests of a run: two, so that any two requests can overlap.
Req == {"r1", "r2"}

\* ---------------------------------------------------------------- strings

Str(s) == <<s>>

Absent == [present |-> FALSE, val |-> <<>>]

Some(s) == [present |-> TRUE, val |-> s]

\* Mutant of Truthy: only undefined is falsy, as if the check were userId === undefined.
TruthyWhenPresent(x) == x.present

\* JavaScript truthiness of an optional string: undefined and "" are falsy.
Truthy(x) == x.present /\ x.val # <<>>

Min(a, b) == IF a < b THEN a ELSE b

StartsWith(s, p) == Len(p) <= Len(s) /\ SubSeq(s, 1, Len(p)) = p

Digit(d) == <<"0", "1", "2", "3", "4", "5", "6", "7", "8", "9">>[d + 1]

\* Number.prototype.toString of a natural number, in decimal.
RECURSIVE NumberToString(_)
NumberToString(n) == IF n < 10 THEN <<Digit(n)>> ELSE NumberToString(n \div 10) \o <<Digit(n % 10)>>

LowerCase == <<"g", "e", "t", "p", "o", "s">>

UpperCase == <<"G", "E", "T", "P", "O", "S">>

UpperChar(c) ==
  IF \E i \in 1..Len(LowerCase) : LowerCase[i] = c
    THEN UpperCase[CHOOSE i \in 1..Len(LowerCase) : LowerCase[i] = c]
    ELSE c

\* String.prototype.toUpperCase
toUpperCase(s) == [i \in 1..Len(s) |-> UpperChar(s[i])]

\* String.prototype.substring(from, to), 0-based and end-exclusive
substring(s, from, to) == SubSeq(s, from + 1, Min(to, Len(s)))

\* ---------------------------------------------------------------- JSON

\* A JSON object is the sequence of its fields.
StrField(k, s) == [k |-> k, t |-> "string", s |-> s, n |-> 0]

NumField(k, n) == [k |-> k, t |-> "number", s |-> <<>>, n |-> n]

ObjField(k) == [k |-> k, t |-> "object", s |-> <<>>, n |-> 0]

StringifyValue(f) ==
  CASE f.t = "string" -> <<"\"">> \o f.s \o <<"\"">>
    [] f.t = "number" -> NumberToString(f.n)
    [] OTHER -> <<"{}">>

RECURSIVE StringifyFields(_)
StringifyFields(o) ==
  IF o = <<>> THEN <<>>
  ELSE <<"\"", o[1].k, "\":">> \o StringifyValue(o[1])
       \o (IF Len(o) > 1 THEN <<",">> ELSE <<>>) \o StringifyFields(Tail(o))

\* JSON.stringify of an object
Stringify(o) == <<"{">> \o StringifyFields(o) \o <<"}">>

HasField(o, k) == \E i \in 1..Len(o) : o[i].k = k

\* o.k: the value of field k of object o, undefined when o has none
Get(o, k) ==
  IF HasField(o, k) THEN Some(o[CHOOSE i \in 1..Len(o) : o[i].k = k].s) ELSE Absent

\* What res.json() sends of an object literal: a field whose value is undefined is left out.
Body(fields) == SelectSeq(fields, LAMBDA f : f.v.present)

Sent(fields) == [i \in 1..Len(Body(fields)) |-> StrField(Body(fields)[i].k, Body(fields)[i].v.val)]

\* ---------------------------------------------------------------- configuration

SUMSUB_API_URL == <<"https://api.sumsub.com">>

LEVEL_NAME == <<"basic-kyc-level">>

AppTokens == {<<>>, <<"app-token">>}

SecretKeys == {<<>>, <<"secret-key">>}

\* ---------------------------------------------------------------- the Signer

Ok(v) == [ok |-> TRUE, err |-> <<>>, val |-> v]

Throw(msg, v) == [ok |-> FALSE, err |-> msg, val |-> v]

NoSignature == [key |-> <<>>, msg |-> <<>>]

\* crypto.createHmac('sha256', key).update(message).digest('hex'): collision-free,
\* so a digest stands for the one key and message it was made from.
Hmac(key, message) == [key |-> key, msg |-> message]

\* Mutant of Message: the body is left out of what is signed.
MessageWithoutBody(timestamp, method, path, body) == timestamp \o toUpperCase(method) \o path

Message(timestamp, method, path, body) == timestamp \o toUpperCase(method) \o path \o body

createSignature(timestamp, method, path, body) ==
  IF ~(SECRET_KEY # <<>>)
    THEN Throw(Str("SUMSUB_SECRET_KEY is not configured"), NoSignature)
    ELSE Ok(Hmac(SECRET_KEY, Message(timestamp, method, path, body)))

\* ---------------------------------------------------------------- the signed outbound call

NoBody == [present |-> FALSE, obj |-> <<>>]

JsonBody(o) == [present |-> TRUE, obj |-> o]

NoCall ==
  [method |-> <<>>, path |-> <<>>, url |-> <<>>, appToken |-> <<>>, ts |-> <<>>,
   sig |-> NoSignature, body |-> Absent]

\* Mutant of Timestamp: the clock is read once, when the server starts.
StaleTimestamp == NumberToString(StartNow \div 1000)

\* X-App-Access-Ts: Math.floor(Date.now() / 1000).toString()
Timestamp == NumberToString(now \div 1000)

\* What is signed for a call: the serialized body, '' when the call has none.
BodyString(body) == IF body.present THEN Stringify(body.obj) ELSE <<>>

\* What fetch is given as the body: the serialized body, undefined when the call has none.
FetchBody(body) == IF body.present THEN Some(Stringify(body.obj)) ELSE Absent

\* makeAuthenticatedRequest up to the await of fetch: the call it issues, or
\* the error it throws before issuing one.
makeAuthenticatedRequest(method, path, body) ==
  IF ~(APP_TOKEN # <<>>)
    THEN Throw(Str("SUMSUB_APP_TOKEN is not configured"), NoCall)
    ELSE LET timestamp == Timestamp
             signature == createSignature(timestamp, method, path, BodyString(body))
         IN  IF ~signature.ok
               THEN Throw(signature.err, NoCall)
               ELSE Ok([method |-> method, path |-> path, url |-> SUMSUB_API_URL \o path,
                        appToken |-> APP_TOKEN, ts |-> timestamp, sig |-> signature.val,
                        body |-> FetchBody(body)])

\* What the remote API (or the transport) does with a call.
Answer(json) == [kind |-> "ok", status |-> 200, text |-> <<>>, json |-> json]

Refusal(status, text) == [kind |-> "status", status |-> status, text |-> text, json |-> <<>>]

NetworkFailure == [kind |-> "network", status |-> 0, text |-> Str("fetch failed"), json |-> <<>>]

\* Mutant of Receive: the check of response.ok is missing.
ReceiveIgnoringStatus(o) ==
  IF o.kind = "network" THEN Throw(o.text, <<>>) ELSE Ok(o.json)

\* makeAuthenticatedRequest after the await of fetch: the JSON it returns, or
\* the error it throws.
Receive(o) ==
  CASE o.kind = "network" -> Throw(o.text, <<>>)
    [] o.kind = "status" ->
         Throw(Str("Sumsub API error: ") \o NumberToString(o.status) \o Str(" ") \o o.text, <<>>)
    [] OTHER -> Ok(o.json)

\* ---------------------------------------------------------------- the Gateway

Response(status, body) == [status |-> status, body |-> body]

\* res.status(400).json({ error: 'userId is required' })
UserIdRequired == Response(400, <<StrField("error", Str("userId is required"))>>)

\* res.status(500).json({ error, details: error.message }) of a catch block
Failure(error, details) ==
  Response(500, <<StrField("error", Str(error)), StrField("details", details)>>)

NoRequest == [route |-> "none", userId |-> Absent, levelName |-> Absent, applicantId |-> <<>>]

NoLocals == [uniqueUserId |-> <<>>, selectedLevel |-> <<>>, applicantId |-> Absent]

\* What Math.random().toString(36) may give: "0." and the digits of the draw in
\* base 36, or "0" alone when the draw is 0.
RandomDraws ==
  { <<"0", ".", "k", "3", "x", "9", "q", "1", "z">>,
    <<"0", ".", "k", "3", "x", "9", "q", "1", "y">>,
    <<"0", ".", "5">> }

\* Math.random().toString(36).substring(2, 8)
RandomSuffix(draw) == substring(draw, 2, 8)

\* `${userId}_${Date.now()}_${Math.random().toString(36).substring(2, 8)}`
uniqueUserId(userId, draw) ==
  userId \o Str("_") \o NumberToString(now) \o Str("_") \o RandomSuffix(draw)

\* levelName || LEVEL_NAME
selectedLevel(levelName) == IF Truthy(levelName) THEN levelName.val ELSE LEVEL_NAME

\* `/resources/applicants?levelName=${selectedLevel}`
ApplicantsPath(level) == Str("/resources/applicants?levelName=") \o level

TokenPath == Str("/resources/accessTokens/sdk")

\* `/resources/applicants/${applicantId}/one`
ApplicantPath(applicantId) == Str("/resources/applicants/") \o applicantId \o Str("/one")

POST == <<"P", "O", "S", "T">>

GET == <<"G", "E", "T">>

\* const applicantRequest = { externalUserId: uniqueUserId }
applicantRequest(uid) == <<StrField("externalUserId", uid)>>

\* Mutant of tokenRequest: the token is minted under the configured default level.
tokenRequestDefaultLevel(uid, level) ==
  <<StrField("userId", uid), StrField("levelName", LEVEL_NAME), NumField("ttlInSecs", 1200)>>

\* const tokenRequest = { userId: uniqueUserId, levelName: selectedLevel, ttlInSecs: 1200 }
tokenRequest(uid, level) ==
  <<StrField("userId", uid), StrField("levelName", level), NumField("ttlInSecs", 1200)>>

\* const tokenRequest = { userId, levelName: LEVEL_NAME, ttlInSecs: 1200, applicantIdentifiers: {} }
refreshRequest(userId) ==
  <<StrField("userId", userId), StrField("levelName", LEVEL_NAME),
    NumField("ttlInSecs", 1200), ObjField("applicantIdentifiers")>>

\* res.json({ token: tokenResponse.token, applicantId: applicantId, userId: uniqueUserId })
AccessTokenResponse(tokenResponse, locals) ==
  Response(200, Sent(<<[k |-> "token", v |-> Get(tokenResponse, "token")],
                       [k |-> "applicantId", v |-> locals.applicantId],
                       [k |-> "userId", v |-> Some(locals.uniqueUserId)]>>))

\* res.json({ token: tokenResponse.token, userId: userId })
RefreshTokenResponse(tokenResponse, userId) ==
  Response(200, Sent(<<[k |-> "token", v |-> Get(tokenResponse, "token")],
                       [k |-> "userId", v |-> userId]>>))

\* res.json(response)
ApplicantResponse(response) == Response(200, response)

\* The handler of r has sent response x and returned.
Respond(r, x) ==
  /\ res' = [res EXCEPT ![r] = Append(@, x)]
  /\ pc' = [pc EXCEPT ![r] = "done"]

\* The handler of r has issued call c and awaits it.
Await(r, c, at) ==
  /\ calls' = [calls EXCEPT ![r] = Append(@, c)]
  /\ pc' = [pc EXCEPT ![r] = at]

\* What a caller may send.
UserIds == {Absent, Some(<<>>), Some(Str("alice"))}

LevelNames == {Absent, Some(<<>>), Some(Str("id-only"))}

ApplicantIds == {Str("sub_1"), Str("sub_2")}

\* POST /api/access-token, to the await of the subject-creation call
AccessToken(r, userId, levelName, draw) ==
  /\ pc[r] = "idle"
  /\ req' = [req EXCEPT ![r] = [route |-> "access-token", userId |-> userId,
                                levelName |-> levelName, applicantId |-> <<>>]]
  /\ IF ~Truthy(userId)
       THEN /\ Respond(r, UserIdRequired)
            /\ UNCHANGED <<loc, calls>>
       ELSE LET level == selectedLevel(levelName)
                uid == uniqueUserId(userId.val, draw)
                call == makeAuthenticatedRequest(POST, ApplicantsPath(level),
                                                 JsonBody(applicantRequest(uid)))
            IN  /\ loc' = [loc EXCEPT ![r] = [uniqueUserId |-> uid, selectedLevel |-> level,
                                              applicantId |-> Absent]]
                /\ IF call.ok
                     THEN Await(r, call.val, "create") /\ UNCHANGED res
                     ELSE Respond(r, Failure("Failed to generate access token", call.err))
                          /\ UNCHANGED calls
  /\ UNCHANGED <<config, now, replies, hung, signer>>

\* What the remote API may do with a subject-creation call.
CreateOutcomes ==
  { Answer(<<StrField("id", Str("sub_1"))>>),
    Refusal(409, Str("already exists")),
    NetworkFailure }

\* What the remote API may do with a token-minting call.
TokenOutcomes ==
  { Answer(<<StrField("token", Str("tok_xyz"))>>),
    Answer(<<StrField("token", Str("tok_abc"))>>),
    Refusal(401, Str("unauthorized")),
    NetworkFailure }

\* What the remote API may do with a subject lookup.
LookupOutcomes ==
  { Answer(<<StrField("id", Str("sub_1")), StrField("review", Str("pending"))>>),
    Answer(<<StrField("id", Str("sub_2")), StrField("review", Str("completed")),
             StrField("answer", Str("GREEN"))>>),
    Refusal(404, Str("not found")),
    NetworkFailure }

\* Mutant of Returns: the calls share one connection, which a hanging call holds.
ReturnsUnlessAnyHung(r, o) ==
  /\ \A q \in Req : ~hung[q]
  /\ replies' = [replies EXCEPT ![r] = Append(@, o)]

\* The call request r awaits returns with outcome o.
Returns(r, o) ==
  /\ ~hung[r]
  /\ replies' = [replies EXCEPT ![r] = Append(@, o)]

\* POST /api/access-token, from the return of the subject-creation call to the
\* await of the token-minting call
CreateReturns(r, o) ==
  /\ pc[r] = "create"
  /\ Returns(r, o)
  /\ LET applicantResponse == Receive(o)
     IN  IF ~applicantResponse.ok
           THEN /\ Respond(r, Failure("Failed to generate access token", applicantResponse.err))
                /\ UNCHANGED <<loc, calls>>
           ELSE LET locals == [loc[r] EXCEPT !.applicantId = Get(applicantResponse.val, "id")]
                    call == makeAuthenticatedRequest(POST, TokenPath,
                              JsonBody(tokenRequest(locals.uniqueUserId, locals.selectedLevel)))
                IN  /\ loc' = [loc EXCEPT ![r] = locals]
                    /\ IF call.ok
                         THEN Await(r, call.val, "mint") /\ UNCHANGED res
                         ELSE Respond(r, Failure("Failed to generate access token", call.err))
                              /\ UNCHANGED calls
  /\ UNCHANGED <<config, now, req, hung, signer>>

\* POST /api/access-token, from the return of the token-minting call
MintReturns(r, o) ==
  /\ pc[r] = "mint"
  /\ Returns(r, o)
  /\ LET tokenResponse == Receive(o)
     IN  IF ~tokenResponse.ok
           THEN Respond(r, Failure("Failed to generate access token", tokenResponse.err))
           ELSE Respond(r, AccessTokenResponse(tokenResponse.val, loc[r]))
  /\ UNCHANGED <<config, now, req, loc, calls, hung, signer>>

\* POST /api/refresh-token, to the await of the token-minting call
RefreshToken(r, userId) ==
  /\ pc[r] = "idle"
  /\ req' = [req EXCEPT ![r] = [route |-> "refresh-token", userId |-> userId,
                                levelName |-> Absent, applicantId |-> <<>>]]
  /\ IF ~Truthy(userId)
       THEN Respond(r, UserIdRequired) /\ UNCHANGED calls
       ELSE LET call == makeAuthenticatedRequest(POST, TokenPath,
                                                 JsonBody(refreshRequest(userId.val)))
            IN  IF call.ok
                  THEN Await(r, call.val, "refresh") /\ UNCHANGED res
                  ELSE Respond(r, Failure("Failed to refresh access token", call.err))
                       /\ UNCHANGED calls
  /\ UNCHANGED <<config, now, loc, replies, hung, signer>>

\* POST /api/refresh-token, from the return of the token-minting call
RefreshReturns(r, o) ==
  /\ pc[r] = "refresh"
  /\ Returns(r, o)
  /\ LET tokenResponse == Receive(o)
     IN  IF ~tokenResponse.ok
           THEN Respond(r, Failure("Failed to refresh access token", tokenResponse.err))
           ELSE Respond(r, RefreshTokenResponse(tokenResponse.val, req[r].userId))
  /\ UNCHANGED <<config, now, req, loc, calls, hung, signer>>

\* GET /api/applicant/:applicantId, to the await of the lookup
GetApplicant(r, applicantId) ==
  /\ pc[r] = "idle"
  /\ req' = [req EXCEPT ![r] = [route |-> "applicant", userId |-> Absent,
                                levelName |-> Absent, applicantId |-> applicantId]]
  /\ LET call == makeAuthenticatedRequest(GET, ApplicantPath(applicantId), NoBody)
     IN  IF call.ok
           THEN Await(r, call.val, "lookup") /\ UNCHANGED res
           ELSE Respond(r, Failure("Failed to fetch applicant", call.err)) /\ UNCHANGED calls
  /\ UNCHANGED <<config, now, loc, replies, hung, signer>>

\* GET /api/applicant/:applicantId, from the return of the lookup
ApplicantReturns(r, o) ==
  /\ pc[r] = "lookup"
  /\ Returns(r, o)
  /\ LET response == Receive(o)
     IN  IF ~response.ok
           THEN Respond(r, Failure("Failed to fetch applicant", response.err))
           ELSE Respond(r, ApplicantResponse(response.val))
  /\ UNCHANGED <<config, now, req, loc, calls, hung, signer>>

Awaiting(r) == pc[r] \in {"create", "mint", "refresh", "lookup"}

\* The remote API never answers the call request r awaits (the code sets no timeout).
Hang(r) ==
  /\ Awaiting(r)
  /\ ~hung[r]
  /\ hung' = [hung EXCEPT ![r] = TRUE]
  /\ UNCHANGED <<config, now, pc, req, loc, calls, replies, res, signer>>

\* Time passes.
Tick ==
  /\ now < StartNow + MaxTicks
  /\ now' = now + 1
  /\ UNCHANGED <<config, pc, req, loc, calls, replies, hung, res, signer>>

\* ---------------------------------------------------------------- the server

SignerInput(timestamp, method, path, body) ==
  [timestamp |-> timestamp, method |-> method, path |-> path, body |-> body]

Unsigned == Throw(<<>>, NoSignature)

NoSigner ==
  [done |-> FALSE, a |-> SignerInput(<<>>, <<>>, <<>>, <<>>),
   b |-> SignerInput(<<>>, <<>>, <<>>, <<>>), sigA |-> Unsigned, sigB |-> Unsigned]

Idle ==
  /\ now = StartNow
  /\ pc = [r \in Req |-> "idle"]
  /\ req = [r \in Req |-> NoRequest]
  /\ loc = [r \in Req |-> NoLocals]
  /\ calls = [r \in Req |-> <<>>]
  /\ replies = [r \in Req |-> <<>>]
  /\ hung = [r \in Req |-> FALSE]
  /\ res = [r \in Req |-> <<>>]

\* The server after app.listen: the configuration is whatever the environment
\* holds (the code starts with either credential missing), no request yet.
Init ==
  /\ APP_TOKEN \in AppTokens
  /\ SECRET_KEY \in SecretKeys
  /\ Idle
  /\ signer = NoSigner

Next ==
  \/ \E r \in Req, userId \in UserIds, levelName \in LevelNames, draw \in RandomDraws :
       AccessToken(r, userId, levelName, draw)
  \/ \E r \in Req, o \in CreateOutcomes : CreateReturns(r, o)
  \/ \E r \in Req, o \in TokenOutcomes : MintReturns(r, o)
  \/ \E r \in Req, userId \in UserIds : RefreshToken(r, userId)
  \/ \E r \in Req, o \in TokenOutcomes : RefreshReturns(r, o)
  \/ \E r \in Req, applicantId \in ApplicantIds : GetApplicant(r, applicantId)
  \/ \E r \in Req, o \in LookupOutcomes : ApplicantReturns(r, o)
  \/ \E r \in Req : Hang(r)
  \/ Tick

Spec == Init /\ [][Next]_vars

\* The remote API answers every call that does not hang, and the event loop
\* then runs the handler that awaits the answer.
Reply(r) ==
  \/ \E o \in CreateOutcomes : CreateReturns(r, o)
  \/ \E o \in TokenOutcomes : MintReturns(r, o) \/ RefreshReturns(r, o)
  \/ \E o \in LookupOutcomes : ApplicantReturns(r, o)

FairSpec == Spec /\ \A r \in Req : WF_vars(Reply(r))

\* ---------------------------------------------------------------- the Signer alone

\* The inputs the Signer is applied to.
SignerInputs ==
  { SignerInput(timestamp, method, path, body) :
      timestamp \in {<<"1">>, <<"2">>},
      method \in {GET, POST, <<"g", "e", "t">>},
      path \in {TokenPath, ApplicantsPath(LEVEL_NAME)},
      body \in {<<>>, Stringify(refreshRequest(Str("alice")))} }

SignerInit ==
  /\ APP_TOKEN = <<"app-token">>
  /\ SECRET_KEY \in SecretKeys
  /\ Idle
  /\ signer \in { [NoSigner EXCEPT !.a = a, !.b = b] : a \in SignerInputs, b \in SignerInputs }

\* createSignature applied to the two inputs
Sign ==
  /\ ~signer.done
  /\ signer' = [signer EXCEPT
       !.done = TRUE,
       !.sigA = createSignature(signer.a.timestamp, signer.a.method, signer.a.path, signer.a.body),
       !.sigB = createSignature(signer.b.timestamp, signer.b.method, signer.b.path, signer.b.body)]
  /\ UNCHANGED <<config, now, pc, req, loc, calls, replies, hung, res>>

SignerNext == Sign

SignerSpec == SignerInit /\ [][SignerNext]_vars

\* ---------------------------------------------------------------- properties

NonEmptyUserId(r) == req[r].userId.present /\ req[r].userId.val # <<>>

\* A response is the 500 of a catch block: { error, details }.
IsFailure(x) ==
  /\ x.status = 500
  /\ Len(x.body) = 2
  /\ x.body[1].k = "error" /\ x.body[1].s # <<>>
  /\ x.body[2].k = "details" /\ x.body[2].s # <<>>

\* C1: a POST /api/access-token or /api/refresh-token whose userId is missing or
\* empty is answered 400 {error: "userId is required"} and issues no outbound call.
C1_MissingUserId ==
  \A r \in Req :
    (req[r].route \in {"access-token", "refresh-token"} /\ ~NonEmptyUserId(r))
      => /\ calls[r] = <<>>
         /\ res[r] = <<[status |-> 400,
                        body |-> <<StrField("error", <<"userId is required">>)>>]>>

C1_Witness ==
  \E r \in Req :
    /\ req[r].route = "refresh-token"
    /\ req[r].userId = Some(<<>>)
    /\ APP_TOKEN # <<>> /\ SECRET_KEY # <<>>
    /\ pc[r] = "done"

\* C2: once an outbound call of a request has failed, that call is the request's
\* last one (no retry, no token-minting call after a failed subject creation), the
\* request is answered 500 {error, details}, and no other response is sent.
C2_NoCallAfterFailure ==
  \A r \in Req : \A i \in 1..Len(replies[r]) :
    replies[r][i].kind # "ok"
      => /\ i = Len(replies[r])
         /\ Len(calls[r]) = i
         /\ pc[r] = "done"
         /\ Len(res[r]) = 1
         /\ IsFailure(res[r][1])

C2_Witness ==
  \E r \in Req :
    /\ req[r].route = "access-token"
    /\ Len(replies[r]) = 1
    /\ replies[r][1].kind = "status"
    /\ pc[r] = "done"

\* The access-token request r has issued exactly two calls, the subject creation
\* then the token minting, both carrying the derived identifier and the given
\* level, and is answered {token of the minting response, applicantId of the
\* creation response, userId: the derived identifier}; the derived identifier
\* starts with the caller's userId and "_".
IssuedUnder(r, level) ==
  LET uid == loc[r].uniqueUserId
  IN  /\ pc[r] = "done"
      /\ Len(calls[r]) = 2
      /\ calls[r][1].method = <<"P", "O", "S", "T">>
      /\ calls[r][1].path = <<"/resources/applicants?levelName=">> \o level
      /\ calls[r][1].body = Some(Stringify(<<StrField("externalUserId", uid)>>))
      /\ calls[r][2].method = <<"P", "O", "S", "T">>
      /\ calls[r][2].path = <<"/resources/accessTokens/sdk">>
      /\ calls[r][2].body =
           Some(Stringify(<<StrField("userId", uid), StrField("levelName", level),
                            NumField("ttlInSecs", 1200)>>))
      /\ res[r] = <<[status |-> 200,
                     body |-> <<StrField("token", Get(replies[r][2].json, "token").val),
                                StrField("applicantId", Get(replies[r][1].json, "id").val),
                                StrField("userId", uid)>>]>>
      /\ StartsWith(uid, req[r].userId.val \o <<"_">>)
      /\ Len(uid) > Len(req[r].userId.val) + 1

\* Both upstream calls of the access-token request r have succeeded.
BothSucceeded(r) ==
  /\ req[r].route = "access-token"
  /\ Len(replies[r]) = 2
  /\ replies[r][1].kind = "ok"
  /\ replies[r][2].kind = "ok"

\* C3 as stated: an access-token request both of whose upstream calls succeed
\* has issued the subject creation then the token minting, both under the
\* supplied levelName, or under the configured default when levelName is
\* omitted, and is answered {token, applicantId, userId: derived identifier}.
C3_SuppliedLevel ==
  \A r \in Req :
    BothSucceeded(r)
      => IssuedUnder(r, IF req[r].levelName.present THEN req[r].levelName.val
                        ELSE <<"basic-kyc-level">>)

\* C3 as amended: the same, under the supplied levelName when it is not empty,
\* and under the configured default when levelName is omitted or empty.
C3_AccessTokenSuccess ==
  \A r \in Req :
    BothSucceeded(r)
      => IssuedUnder(r, IF req[r].levelName.present /\ req[r].levelName.val # <<>>
                        THEN req[r].levelName.val
                        ELSE <<"basic-kyc-level">>)

C3_Witness ==
  \E r1 \in Req, r2 \in Req :
    /\ BothSucceeded(r1) /\ pc[r1] = "done"
    /\ req[r1].levelName = Some(<<"id-only">>)
    /\ BothSucceeded(r2) /\ pc[r2] = "done"
    /\ req[r2].levelName = Some(<<>>)

\* C4: any two access-token requests with the same caller-supplied userId have
\* different derived identifiers.
C4_UniqueDerivedIdentifier ==
  \A r1 \in Req, r2 \in Req :
    (/\ r1 # r2
     /\ req[r1].route = "access-token" /\ NonEmptyUserId(r1)
     /\ req[r2].route = "access-token" /\ NonEmptyUserId(r2)
     /\ req[r1].userId = req[r2].userId)
      => loc[r1].uniqueUserId # loc[r2].uniqueUserId

\* The two inputs of the Signer differ in exactly one of timestamp, method, path, body.
DifferInOne ==
  Cardinality({f \in {"timestamp", "method", "path", "body"} : signer.a[f] # signer.b[f]}) = 1

\* C5 as stated: with the secret configured, equal inputs give equal signatures
\* and inputs that differ in exactly one of timestamp, method, path, body give
\* different signatures.
C5_AnyChangeChangesSignature ==
  (signer.done /\ SECRET_KEY # <<>>)
    => /\ signer.sigA.ok /\ signer.sigB.ok
       /\ signer.a = signer.b => signer.sigA = signer.sigB
       /\ DifferInOne => signer.sigA # signer.sigB

\* Two different method names differ only in the case of their letters.
CaseOnly(m1, m2) ==
  /\ m1 # m2
  /\ Len(m1) = Len(m2)
  /\ \A i \in 1..Len(m1) :
       \/ m1[i] = m2[i]
       \/ \E j \in 1..Len(LowerCase) : {m1[i], m2[i]} = {LowerCase[j], UpperCase[j]}

\* C5 as amended: with the secret configured, equal inputs give equal
\* signatures; inputs that differ in exactly one of timestamp, method, path, body
\* give different signatures unless the two methods differ only in the case of
\* their letters, and then they give the same signature.
C5_Signer ==
  (signer.done /\ SECRET_KEY # <<>>)
    => /\ signer.sigA.ok /\ signer.sigB.ok
       /\ signer.a = signer.b => signer.sigA = signer.sigB
       /\ (DifferInOne /\ ~CaseOnly(signer.a.method, signer.b.method))
            => signer.sigA # signer.sigB
       /\ (DifferInOne /\ CaseOnly(signer.a.method, signer.b.method))
            => signer.sigA = signer.sigB

C5_Witness ==
  /\ signer.done
  /\ SECRET_KEY # <<>>
  /\ DifferInOne
  /\ signer.a.body # signer.b.body
  /\ signer.sigA # signer.sigB

\* C6: a refresh-token request with a non-empty userId issues exactly one
\* outbound call, the token-minting call with payload {userId as supplied,
\* levelName: the configured default, ttlInSecs: 1200, applicantIdentifiers: {}},
\* never a subject-creation call, and answers {token of upstream, userId as
\* supplied} when the call succeeds.
C6_Refresh ==
  \A r \in Req :
    (req[r].route = "refresh-token" /\ NonEmptyUserId(r))
      => /\ Len(calls[r]) = 1
         /\ calls[r][1].method = <<"P", "O", "S", "T">>
         /\ calls[r][1].path = <<"/resources/accessTokens/sdk">>
         /\ calls[r][1].body =
              Some(Stringify(<<StrField("userId", req[r].userId.val),
                               StrField("levelName", <<"basic-kyc-level">>),
                               NumField("ttlInSecs", 1200),
                               ObjField("applicantIdentifiers")>>))
         /\ (replies[r] # <<>> /\ replies[r][1].kind = "ok")
              => res[r] = <<[status |-> 200,
                             body |-> <<StrField("token", Get(replies[r][1].json, "token").val),
                                        StrField("userId", req[r].userId.val)>>]>>

\* C7: a status lookup issues exactly one signed GET to
\* /resources/applicants/{applicantId}/one with no body; the response body is
\* the upstream JSON when the call succeeds, and 500 {error, details} when it fails.
C7_Lookup ==
  \A r \in Req :
    req[r].route = "applicant"
      => /\ Len(calls[r]) = 1
         /\ calls[r][1].method = <<"G", "E", "T">>
         /\ calls[r][1].path = <<"/resources/applicants/">> \o req[r].applicantId \o <<"/one">>
         /\ calls[r][1].body = Absent
         /\ calls[r][1].sig.key # <<>>
         /\ (replies[r] # <<>> /\ replies[r][1].kind = "ok")
              => res[r] = <<[status |-> 200, body |-> replies[r][1].json]>>
         /\ (replies[r] # <<>> /\ replies[r][1].kind # "ok")
              => (Len(res[r]) = 1 /\ IsFailure(res[r][1]))

\* C8: with the secret key absent no outbound call is ever sent, and no
\* handler turns the Signer's configuration error into a response.
C8_StartupMisconfiguration ==
  SECRET_KEY = <<>>
    => \A r \in Req :
         /\ calls[r] = <<>>
         /\ \A i \in 1..Len(res[r]) :
              Get(res[r][i].body, "details") # Some(<<"SUMSUB_SECRET_KEY is not configured">>)

\* The call c is signed as the remote API expects, with the clock read at this step.
SignedNow(c) ==
  /\ c.appToken = APP_TOKEN
  /\ c.ts = NumberToString(now \div 1000)
  /\ c.sig.key = SECRET_KEY
  /\ c.sig.msg = c.ts \o c.method \o c.path \o (IF c.body.present THEN c.body.val ELSE <<>>)
  /\ c.url = <<"https://api.sumsub.com">> \o c.path

\* C9: every step that issues an outbound call issues exactly one, whose
\* X-App-Access-Ts is the clock read at that step and is the timestamp signed,
\* and whose signature covers the method, the path with its query string and
\* the serialized body that is sent ('' when none is sent).
C9_SignedWhenIssued ==
  [][\A r \in Req :
       calls'[r] # calls[r]
         => /\ Len(calls'[r]) = Len(calls[r]) + 1
            /\ SubSeq(calls'[r], 1, Len(calls[r])) = calls[r]
            /\ SignedNow(calls'[r][Len(calls'[r])])]_vars

C9_Witness ==
  \E r \in Req :
    /\ Len(calls[r]) = 2
    /\ calls[r][1].ts # calls[r][2].ts
    /\ calls[r][1].sig.msg[1] = calls[r][1].ts[1]
    /\ calls[r][2].sig.msg[1] = calls[r][2].ts[1]

\* A request has at most one response, sent when its handler returns, and two
\* requests with the same input, the same derived identifier and the same
\* upstream answers have the same response.
OwnResponse ==
  /\ \A r \in Req : Len(res[r]) = (IF pc[r] = "done" THEN 1 ELSE 0)
  /\ \A r1 \in Req, r2 \in Req :
       (/\ pc[r1] = "done" /\ pc[r2] = "done"
        /\ req[r1] = req[r2]
        /\ loc[r1].uniqueUserId = loc[r2].uniqueUserId
        /\ replies[r1] = replies[r2])
         => res[r1] = res[r2]

====
